---- MODULE Spec2Model ----
(***************************************************************************)
(* State-machine model of src/generative_core.py: the LSystem rewriting    *)
(* engine (class LSystem) and the 3D turtle tracer (class Turtle).         *)
(*                                                                         *)
(* Strings are sequences of one-character strings.  Vectors are triples of *)
(* integers: the tracer is modelled for turn angles that are multiples of  *)
(* a quarter turn (cos and sin in {-1,0,1}) and integer step lengths, so   *)
(* that the floating-point arithmetic of numpy is exact.                   *)
(*                                                                         *)
(* A behaviour exercises one engine object family: either an LSystem is    *)
(* constructed (pcL = "idle", pcT = "none") or a Turtle is constructed     *)
(* (pcT = "ready", pcL = "none").                                          *)
(***************************************************************************)
EXTENDS Integers, Sequences, FiniteSets, TLC

VARIABLES
    \* ---- class LSystem ----
    axiom,          \* self.axiom
    rules,          \* self.rules : partial map symbol -> rule value
    state,          \* self.state
    pcL,            \* "none" | "idle" | "iterating" | "returned"
    todo,           \* iterations of `for _ in range(n)` still to run
    nArg,           \* argument n of the iterate call in progress / last made
    prev,           \* history: self.state before the last generation
    gens,           \* history: generations applied to the current object
    objL,           \* history: 1 = first LSystem object, 2 = a later fresh one
    logL,           \* history: one record per returned iterate call
    \* ---- class Turtle ----
    position,       \* self.position
    direction,      \* self.direction
    up,             \* self.up
    angle,          \* self.angle, in quarter turns
    stack,          \* self.stack
    vertices,       \* self.vertices
    curve_indices,  \* self.curve_indices
    current_curve,  \* self.current_curve
    cmds,           \* argument lsystem_string of execute
    step,           \* argument step_length of execute
    idx,            \* 1-based position of the for loop in lsystem_string
    pcT,            \* "none" | "ready" | "running" | "done" | "raised"
    hist,           \* history: tracer snapshot after each command of this call
    objT,           \* history: 1 = first Turtle object, 2 = a later fresh one
    callsT,         \* history: execute calls started on the current object
    logT,           \* history: one record per returned execute call
    \* ---- translate_to_usd.py ----
    pxr,            \* the pxr package can be imported
    stateLoads,     \* the state file opens and unpickles
    promptLoads,    \* the prompt file opens and parses
    hasPoints,      \* state['organism_geometry']['points'] is non-empty
    hasCounts,      \* state['organism_geometry']['curveVertexCounts'] is non-empty
    pcU,            \* "none" | "unloaded" | "imported" | "import_failed" | "returned"
    stepsU,         \* history: the steps of the try body that completed
    outFile         \* what is at output_usd_path: "absent" | "saved" | "failed"

varsL == <<axiom, rules, state, pcL, todo, nArg, prev, gens, objL, logL>>
varsT == <<position, direction, up, angle, stack, vertices, curve_indices,
           current_curve, cmds, step, idx, pcT, hist, objT, callsT, logT>>
varsU == <<pxr, stateLoads, promptLoads, hasPoints, hasCounts, pcU, stepsU,
           outFile>>
vars == <<varsL, varsT, varsU>>

----------------------------------------------------------------------------
(* Bounds of the model *)

MaxAxiomLen == 2    \* longest axiom
MaxGen == 2         \* most generations applied to one LSystem object
MaxCmdLen == 2      \* longest command string over the full alphabet
MaxCoreLen == 4     \* longest command string over the core alphabet

----------------------------------------------------------------------------
(* Generic helpers *)

RECURSIVE StringsUpTo(_, _)
StringsUpTo(alphabet, n) ==
    IF n = 0 THEN {<<>>}
    ELSE LET shorter == StringsUpTo(alphabet, n - 1)
         IN shorter \cup {Append(s, c) : s \in shorter, c \in alphabet}

RECURSIVE CountOf(_, _)
CountOf(c, s) ==
    IF s = <<>> THEN 0
    ELSE (IF Head(s) = c THEN 1 ELSE 0) + CountOf(c, Tail(s))

IsPrefix(p, s) == Len(p) <= Len(s) /\ SubSeq(s, 1, Len(p)) = p

----------------------------------------------------------------------------
(* class LSystem *)

\* Rule values as they come out of the prompt JSON: a str, a list of
\* weighted alternatives, or some other shape (here a number).
StrRule(s) == [kind |-> "str", str |-> s, alts |-> <<>>]
ListRule(a) == [kind |-> "list", str |-> <<>>, alts |-> a]
NumRule == [kind |-> "num", str |-> <<>>, alts |-> <<>>]

LAlphabet == {"F", "A"}

RuleValues ==
    { StrRule(<<>>),
      StrRule(<<"A", "F">>),
      ListRule(<< [successor |-> <<"A", "A">>, weight |-> 1],
                  [successor |-> <<"F">>, weight |-> 3] >>),
      NumRule }

RuleTables == UNION { [D -> RuleValues] : D \in SUBSET LAlphabet }

Axioms == StringsUpTo(LAlphabet, MaxAxiomLen)

\* isinstance(self.rules[char], str)
IsStr(r) == r.kind = "str"

\* Mutant: a weighted list resolves to its first alternative.
CharImage_first(c) ==
    IF c \in DOMAIN rules /\ IsStr(rules[c]) THEN rules[c].str
    ELSE IF c \in DOMAIN rules /\ rules[c].kind = "list"
         THEN rules[c].alts[1].successor
         ELSE <<c>>

\* Mutant: the else branch is missing, a symbol without a string rule is lost.
CharImage_drop(c) ==
    IF c \in DOMAIN rules /\ IsStr(rules[c]) THEN rules[c].str ELSE <<>>

\* What one char contributes to new_state (the if/else of the inner loop).
CharImage(c) ==
    IF c \in DOMAIN rules /\ IsStr(rules[c]) THEN rules[c].str ELSE <<c>>

\* Mutant: the successor just emitted is rewritten again in the same pass.
RECURSIVE RewriteFrom_again(_, _, _)
RewriteFrom_again(s, k, acc) ==
    IF k > Len(s) THEN acc
    ELSE LET img == CharImage(s[k])
             again == IF Len(img) > 0 /\ img # <<s[k]>>
                      THEN CharImage(img[1]) \o Tail(img) ELSE img
         IN RewriteFrom_again(s, k + 1, acc \o again)

\* The inner loop `for char in self.state`, from position k with new_state = acc.
RECURSIVE RewriteFrom(_, _, _)
RewriteFrom(s, k, acc) ==
    IF k > Len(s) THEN acc
    ELSE RewriteFrom(s, k + 1, acc \o CharImage(s[k]))

\* Mutant: range(n + 1).
RangeCount_plus1(n) == n + 1

\* Number of iterations of `for _ in range(n)`.
RangeCount(n) == IF n > 0 THEN n ELSE 0

LSystemInit(a, r) ==
    /\ axiom = a
    /\ rules = r
    /\ state = a
    /\ pcL = "idle"
    /\ todo = 0
    /\ nArg = 0
    /\ prev = a
    /\ gens = 0
    /\ objL = 1
    /\ logL = <<>>

LSystemNone ==
    /\ axiom = <<>>
    /\ rules = <<>>
    /\ state = <<>>
    /\ pcL = "none"
    /\ todo = 0
    /\ nArg = 0
    /\ prev = <<>>
    /\ gens = 0
    /\ objL = 0
    /\ logL = <<>>

\* Calls made so far on the current object.
CallsOnObject(o) == Cardinality({k \in 1..Len(logL) : logL[k].obj = o})

\* Mutant: iterate starts over from the axiom on every call.
IterateCall_restart(n) ==
    /\ pcL \in {"idle", "returned"}
    /\ CallsOnObject(objL) < (IF objL = 1 THEN 2 ELSE 1)
    /\ gens + RangeCount(n) <= MaxGen
    /\ nArg' = n
    /\ todo' = RangeCount(n)
    /\ pcL' = "iterating"
    /\ state' = axiom
    /\ UNCHANGED <<axiom, rules, prev, gens, objL, logL>>
    /\ UNCHANGED <<varsT, varsU>>

\* iterate(n) is entered.
IterateCall(n) ==
    /\ pcL \in {"idle", "returned"}
    /\ CallsOnObject(objL) < (IF objL = 1 THEN 2 ELSE 1)
    /\ gens + RangeCount(n) <= MaxGen
    /\ nArg' = n
    /\ todo' = RangeCount(n)
    /\ pcL' = "iterating"
    /\ UNCHANGED <<axiom, rules, state, prev, gens, objL, logL>>
    /\ UNCHANGED <<varsT, varsU>>

\* One iteration of the outer loop: a full pass over self.state.
Generation ==
    /\ pcL = "iterating"
    /\ todo > 0
    /\ prev' = state
    /\ state' = RewriteFrom(state, 1, <<>>)
    /\ todo' = todo - 1
    /\ gens' = gens + 1
    /\ UNCHANGED <<axiom, rules, pcL, nArg, objL, logL>>
    /\ UNCHANGED <<varsT, varsU>>

\* return self.state
IterateReturn ==
    /\ pcL = "iterating"
    /\ todo = 0
    /\ pcL' = "returned"
    /\ logL' = Append(logL, [obj |-> objL, n |-> nArg, ret |-> state,
                             first |-> CallsOnObject(objL) = 0])
    /\ UNCHANGED <<axiom, rules, state, todo, nArg, prev, gens, objL>>
    /\ UNCHANGED <<varsT, varsU>>

\* LSystem(axiom, rules) is constructed again with the same arguments.
LSystemConstruct ==
    /\ pcL = "returned"
    /\ objL = 1
    /\ state' = axiom
    /\ pcL' = "idle"
    /\ todo' = 0
    /\ nArg' = 0
    /\ prev' = axiom
    /\ gens' = 0
    /\ objL' = 2
    /\ UNCHANGED <<axiom, rules, logL>>
    /\ UNCHANGED <<varsT, varsU>>

NextL ==
    \/ \E n \in 0..MaxGen : IterateCall(n)
    \/ Generation
    \/ IterateReturn
    \/ LSystemConstruct

----------------------------------------------------------------------------
(* Vector arithmetic (numpy) on integer triples *)

VAdd(a, b) == <<a[1] + b[1], a[2] + b[2], a[3] + b[3]>>
VScale(a, k) == <<a[1] * k, a[2] * k, a[3] * k>>
VNeg(a) == VScale(a, -1)
Dot(a, b) == a[1] * b[1] + a[2] * b[2] + a[3] * b[3]
Cross(a, b) == <<a[2] * b[3] - a[3] * b[2],
                 a[3] * b[1] - a[1] * b[3],
                 a[1] * b[2] - a[2] * b[1]>>

\* np.linalg.norm(axis) == 0
IsZero(a) == Dot(a, a) = 0

Sign(x) == IF x > 0 THEN 1 ELSE IF x < 0 THEN -1 ELSE 0

\* axis / np.linalg.norm(axis), exact for the axis-parallel vectors that
\* heading, up and their cross product are under quarter-turn rotations.
Normalize(a) == <<Sign(a[1]), Sign(a[2]), Sign(a[3])>>

\* np.cos / np.sin of q quarter turns.
Cos(q) == LET m == ((q % 4) + 4) % 4
          IN IF m = 0 THEN 1 ELSE IF m = 2 THEN -1 ELSE 0
Sin(q) == LET m == ((q % 4) + 4) % 4
          IN IF m = 1 THEN 1 ELSE IF m = 3 THEN -1 ELSE 0

\* Rodrigues' formula as written in _rotate, for unit axis a.
Rodrigues(v, a, q) ==
    VAdd(VAdd(VScale(v, Cos(q)), VScale(Cross(a, v), Sin(q))),
         VScale(a, Dot(a, v) * (1 - Cos(q))))

\* Mutant: `-` turns the same way as `+`.
RotatedFrame_sameway(d, u, axis, q) ==
    LET qq == IF q < 0 THEN -q ELSE q
    IN IF IsZero(axis) THEN <<d, u>>
       ELSE <<Rodrigues(d, Normalize(axis), qq), Rodrigues(u, Normalize(axis), qq)>>

\* _rotate(axis, angle): the new (direction, up).
RotatedFrame(d, u, axis, q) ==
    IF IsZero(axis) THEN <<d, u>>
    ELSE <<Rodrigues(d, Normalize(axis), q), Rodrigues(u, Normalize(axis), q)>>

----------------------------------------------------------------------------
(* class Turtle *)

TAlphabet == {"F", "+", "-", "&", "^", "\\", "/", "[", "]", "A"}
CoreAlphabet == {"F", "+", "-", "[", "]"}

\* Command strings of the scenarios of the specification's testable properties.
ScenarioStrings ==
    { <<"F", "[", "+", "F", "]", "-", "F">>,
      <<"F", "[", "+", "F", "]", "F", "[", "-", "F", "]", "F">>,
      <<"[", "F", "[", "&", "F", "]", "^", "F", "]", "F">>,
      <<"&", "+", "-", "^", "F">> }

CommandStrings ==
    StringsUpTo(TAlphabet, MaxCmdLen) \cup StringsUpTo(CoreAlphabet, MaxCoreLen)
        \cup ScenarioStrings

\* (angle in quarter turns, step_length) pairs the tracer is run with.
TurtleParams == { <<1, 1>>, <<2, 2>> }

\* The symbols execute has a branch for.
Handled == {"F", "+", "-", "&", "^", "[", "]"}

\* The structural command set of the tracer's input language.
Structural == {"F", "+", "-", "&", "^", "\\", "/", "[", "]"}

\* s without the symbols outside the structural command set.
StructuralOnly(s) == SelectSeq(s, LAMBDA c : c \in Structural)

Snapshot(p, d, u, st, vs, cis, cc) ==
    [position |-> p, direction |-> d, up |-> u, stack |-> st,
     vertices |-> vs, curve_indices |-> cis, current_curve |-> cc]

\* Turtle.__init__ with the default start_pos and start_dir.
TurtleInit(q) ==
    /\ position = <<0, 0, 0>>
    /\ direction = <<0, 1, 0>>
    /\ up = <<0, 0, -1>>
    /\ angle = q
    /\ stack = <<>>
    /\ vertices = <<>>
    /\ curve_indices = <<>>
    /\ current_curve = <<>>

TurtleNone ==
    /\ position = <<0, 0, 0>>
    /\ direction = <<0, 0, 0>>
    /\ up = <<0, 0, 0>>
    /\ angle = 0
    /\ stack = <<>>
    /\ vertices = <<>>
    /\ curve_indices = <<>>
    /\ current_curve = <<>>
    /\ cmds = <<>>
    /\ step = 0
    /\ idx = 0
    /\ pcT = "none"
    /\ hist = <<>>
    /\ objT = 0
    /\ callsT = 0
    /\ logT = <<>>

\* The command the for loop is at.
Command == cmds[idx]
AtCommand(c) == pcT = "running" /\ idx <= Len(cmds) /\ Command = c

\* Bookkeeping common to every loop iteration that completes.
Advance(p, d, u, st, vs, cis, cc) ==
    /\ idx' = idx + 1
    /\ hist' = Append(hist, Snapshot(p, d, u, st, vs, cis, cc))
    /\ UNCHANGED <<angle, cmds, step, pcT, objT, callsT, logT>>
    /\ UNCHANGED <<varsL, varsU>>

\* Mutant: execute does not seed the first curve.
ExecuteStart_noseed ==
    /\ \/ pcT = "ready"
       \/ pcT = "done" /\ objT = 1 /\ callsT = 1
    /\ current_curve' = <<>>
    /\ idx' = 1
    /\ pcT' = "running"
    /\ callsT' = callsT + 1
    /\ hist' = <<Snapshot(position, direction, up, stack, vertices,
                          curve_indices, current_curve')>>
    /\ UNCHANGED <<position, direction, up, angle, stack, vertices,
                   curve_indices, cmds, step, objT, logT>>
    /\ UNCHANGED <<varsL, varsU>>

\* execute(lsystem_string, step_length) is entered: start_new_curve().
ExecuteStart ==
    /\ \/ pcT = "ready"
       \/ pcT = "done" /\ objT = 1 /\ callsT = 1
    /\ current_curve' = <<Len(vertices)>>
    /\ vertices' = Append(vertices, position)
    /\ idx' = 1
    /\ pcT' = "running"
    /\ callsT' = callsT + 1
    /\ hist' = <<Snapshot(position, direction, up, stack, vertices',
                          curve_indices, current_curve')>>
    /\ UNCHANGED <<position, direction, up, angle, stack, curve_indices,
                   cmds, step, objT, logT>>
    /\ UNCHANGED <<varsL, varsU>>

\* Mutant: F advances by the heading alone, step_length is not applied.
Forward_unit ==
    /\ AtCommand("F")
    /\ position' = VAdd(position, direction)
    /\ vertices' = Append(vertices, position')
    /\ current_curve' = Append(current_curve, Len(vertices') - 1)
    /\ UNCHANGED <<direction, up, stack, curve_indices>>
    /\ Advance(position', direction, up, stack, vertices', curve_indices,
               current_curve')

\* command == 'F'
Forward ==
    /\ AtCommand("F")
    /\ position' = VAdd(position, VScale(direction, step))
    /\ vertices' = Append(vertices, position')
    /\ current_curve' = Append(current_curve, Len(vertices') - 1)
    /\ UNCHANGED <<direction, up, stack, curve_indices>>
    /\ Advance(position', direction, up, stack, vertices', curve_indices,
               current_curve')

\* A rotation command: _rotate(axis, q).
Rotate(axis, q) ==
    LET f == RotatedFrame(direction, up, axis, q)
    IN /\ direction' = f[1]
       /\ up' = f[2]
       /\ UNCHANGED <<position, stack, vertices, curve_indices, current_curve>>
       /\ Advance(position, f[1], f[2], stack, vertices, curve_indices,
                  current_curve)

\* command == '+'
TurnPlus == AtCommand("+") /\ Rotate(up, angle)

\* command == '-'
TurnMinus == AtCommand("-") /\ Rotate(up, -angle)

\* command == '&'
PitchDown == AtCommand("&") /\ Rotate(Cross(direction, up), angle)

\* command == '^'
PitchUp == AtCommand("^") /\ Rotate(Cross(direction, up), -angle)

\* Mutant: `[` saves the frame but keeps drawing the same curve.
OpenBranch_nosplit ==
    /\ AtCommand("[")
    /\ stack' = Append(stack, <<position, direction, up>>)
    /\ UNCHANGED <<position, direction, up, vertices, curve_indices,
                   current_curve>>
    /\ Advance(position, direction, up, stack', vertices, curve_indices,
               current_curve)

\* command == '['
OpenBranch ==
    /\ AtCommand("[")
    /\ stack' = Append(stack, <<position, direction, up>>)
    /\ LET closed == IF current_curve # <<>>
                     THEN Append(curve_indices, current_curve)
                     ELSE curve_indices
       IN /\ curve_indices' = closed
          /\ current_curve' = <<Len(vertices)>>
          /\ vertices' = Append(vertices, position)
          /\ UNCHANGED <<position, direction, up>>
          /\ Advance(position, direction, up, stack', vertices', closed,
                     current_curve')

\* Mutant: `[` pushed self.position itself, not a copy, and F has moved that
\* array in place since: the popped position is the current one.
CloseBranch_alias ==
    /\ AtCommand("]")
    /\ stack # <<>>
    /\ LET closed == IF current_curve # <<>>
                     THEN Append(curve_indices, current_curve)
                     ELSE curve_indices
           top == stack[Len(stack)]
       IN /\ curve_indices' = closed
          /\ position' = position
          /\ direction' = top[2]
          /\ up' = top[3]
          /\ stack' = SubSeq(stack, 1, Len(stack) - 1)
          /\ current_curve' = <<Len(vertices)>>
          /\ vertices' = Append(vertices, position)
          /\ Advance(position, top[2], top[3], stack', vertices', closed,
                     current_curve')

\* command == ']' with a frame to pop
CloseBranch ==
    /\ AtCommand("]")
    /\ stack # <<>>
    /\ LET closed == IF current_curve # <<>>
                     THEN Append(curve_indices, current_curve)
                     ELSE curve_indices
           top == stack[Len(stack)]
       IN /\ curve_indices' = closed
          /\ position' = top[1]
          /\ direction' = top[2]
          /\ up' = top[3]
          /\ stack' = SubSeq(stack, 1, Len(stack) - 1)
          /\ current_curve' = <<Len(vertices)>>
          /\ vertices' = Append(vertices, top[1])
          /\ Advance(top[1], top[2], top[3], stack', vertices', closed,
                     current_curve')

\* command == ']' with self.stack empty: the curve is closed, then
\* self.stack.pop() raises IndexError and execute is left by the exception.
CloseBranchEmpty ==
    /\ AtCommand("]")
    /\ stack = <<>>
    /\ curve_indices' = (IF current_curve # <<>>
                         THEN Append(curve_indices, current_curve)
                         ELSE curve_indices)
    /\ pcT' = "raised"
    /\ UNCHANGED <<position, direction, up, angle, stack, vertices,
                   current_curve, cmds, step, idx, hist, objT, callsT, logT>>
    /\ UNCHANGED <<varsL, varsU>>

\* Mutant: a final else branch draws a segment for any other symbol.
OtherSymbol_forward ==
    /\ pcT = "running"
    /\ idx <= Len(cmds)
    /\ Command \notin Handled
    /\ position' = VAdd(position, VScale(direction, step))
    /\ vertices' = Append(vertices, position')
    /\ current_curve' = Append(current_curve, Len(vertices') - 1)
    /\ UNCHANGED <<direction, up, stack, curve_indices>>
    /\ Advance(position', direction, up, stack, vertices', curve_indices,
               current_curve')

\* Any other command: no branch of the if/elif chain matches.
OtherSymbol ==
    /\ pcT = "running"
    /\ idx <= Len(cmds)
    /\ Command \notin Handled
    /\ UNCHANGED <<position, direction, up, stack, vertices, curve_indices,
                   current_curve>>
    /\ Advance(position, direction, up, stack, vertices, curve_indices,
               current_curve)

\* Mutant: the filter keeps every non-empty curve.
CurveVertexCounts_nonempty(cis) ==
    LET kept == SelectSeq(cis, LAMBDA c : Len(c) > 0)
    IN [k \in 1..Len(kept) |-> Len(kept[k])]

\* [len(curve) for curve in self.curve_indices if len(curve) > 1]
CurveVertexCounts(cis) ==
    LET kept == SelectSeq(cis, LAMBDA c : Len(c) > 1)
    IN [k \in 1..Len(kept) |-> Len(kept[k])]

\* After the loop: close the last curve and return (points, counts).
ExecuteReturn ==
    /\ pcT = "running"
    /\ idx > Len(cmds)
    /\ curve_indices' = (IF current_curve # <<>>
                         THEN Append(curve_indices, current_curve)
                         ELSE curve_indices)
    /\ pcT' = "done"
    /\ logT' = Append(logT, [obj |-> objT, call |-> callsT, cmds |-> cmds,
                             points |-> vertices,
                             counts |-> CurveVertexCounts(curve_indices')])
    /\ UNCHANGED <<position, direction, up, angle, stack, vertices,
                   current_curve, cmds, step, idx, hist, objT, callsT>>
    /\ UNCHANGED <<varsL, varsU>>

\* Mutant: vertices and curve_indices are shared by all Turtle objects
\* (class attributes), so a new object starts with the old geometry.
TurtleConstruct_shared ==
    /\ pcT = "done"
    /\ objT = 1
    /\ callsT = 1
    /\ position' = <<0, 0, 0>>
    /\ direction' = <<0, 1, 0>>
    /\ up' = <<0, 0, -1>>
    /\ stack' = <<>>
    /\ current_curve' = <<>>
    /\ pcT' = "ready"
    /\ objT' = 2
    /\ callsT' = 0
    /\ idx' = 0
    /\ hist' = <<>>
    /\ cmds' \in {cmds, StructuralOnly(cmds)}
    /\ UNCHANGED <<vertices, curve_indices, angle, step, logT>>
    /\ UNCHANGED <<varsL, varsU>>

\* Turtle(angle=...) is constructed again with the same arguments; the new
\* object will be given the same command string, or that string without its
\* symbols outside the structural command set.
TurtleConstruct ==
    /\ pcT = "done"
    /\ objT = 1
    /\ callsT = 1
    /\ position' = <<0, 0, 0>>
    /\ direction' = <<0, 1, 0>>
    /\ up' = <<0, 0, -1>>
    /\ stack' = <<>>
    /\ vertices' = <<>>
    /\ curve_indices' = <<>>
    /\ current_curve' = <<>>
    /\ pcT' = "ready"
    /\ objT' = 2
    /\ callsT' = 0
    /\ idx' = 0
    /\ hist' = <<>>
    /\ cmds' \in {cmds, StructuralOnly(cmds)}
    /\ UNCHANGED <<angle, step, logT>>
    /\ UNCHANGED <<varsL, varsU>>

NextT ==
    \/ ExecuteStart
    \/ Forward
    \/ TurnPlus
    \/ TurnMinus
    \/ PitchDown
    \/ PitchUp
    \/ OpenBranch
    \/ CloseBranch
    \/ CloseBranchEmpty
    \/ OtherSymbol
    \/ ExecuteReturn
    \/ TurtleConstruct

----------------------------------------------------------------------------
(* translate_to_usd.py *)

\* The names `from pxr import ...` binds in the module.
Imported == {"Usd", "UsdGeom", "Gf", "Vt"}

\* The steps of the try body in order, each with the pxr module names its
\* statements look up.
TrySteps ==
    << [name |-> "load",          uses |-> {}],
       [name |-> "create_stage",  uses |-> {"Usd", "UsdGeom"}],
       [name |-> "define_root",   uses |-> {"UsdGeom"}],
       [name |-> "embed_prompt",  uses |-> {"Sdf"}],
       [name |-> "define_curves", uses |-> {"UsdGeom", "Vt", "Gf"}],
       [name |-> "save",          uses |-> {}] >>

\* A step raises: open/pickle.load/json.load fail on a file that does not
\* load, and looking up a name the module never bound raises NameError.
StepRaises(s) ==
    \/ s.name = "load" /\ ~(stateLoads /\ promptLoads)
    \/ ~(s.uses \subseteq Imported)

\* `if points and curve_counts:` guards the curves prim; every other step
\* always runs.
StepRuns(s) == s.name = "define_curves" => (hasPoints /\ hasCounts)

\* The try body from step k on, with the steps completed so far: the
\* completed steps and whether the body ended or was left by an exception.
RECURSIVE TryFrom(_, _)
TryFrom(k, done) ==
    IF k > Len(TrySteps) THEN [steps |-> done, outcome |-> "saved"]
    ELSE IF ~StepRuns(TrySteps[k]) THEN TryFrom(k + 1, done)
    ELSE IF StepRaises(TrySteps[k]) THEN [steps |-> done, outcome |-> "failed"]
    ELSE TryFrom(k + 1, Append(done, TrySteps[k].name))

TranslateNone ==
    /\ pxr = FALSE
    /\ stateLoads = FALSE
    /\ promptLoads = FALSE
    /\ hasPoints = FALSE
    /\ hasCounts = FALSE
    /\ pcU = "none"
    /\ stepsU = <<>>
    /\ outFile = "absent"

\* The module is run: line 11 imports pxr before anything else.
ImportModule ==
    /\ pcU = "unloaded"
    /\ pcU' = (IF pxr THEN "imported" ELSE "import_failed")
    /\ UNCHANGED <<pxr, stateLoads, promptLoads, hasPoints, hasCounts, stepsU,
                   outFile>>
    /\ UNCHANGED <<varsL, varsT>>

\* translate_to_usdc(...): the try body, then on an exception the handler
\* that overwrites the output path with a '# FAILED' text file.
Translate ==
    /\ pcU = "imported"
    /\ LET r == TryFrom(1, <<>>)
       IN /\ stepsU' = r.steps
          /\ outFile' = r.outcome
    /\ pcU' = "returned"
    /\ UNCHANGED <<pxr, stateLoads, promptLoads, hasPoints, hasCounts>>
    /\ UNCHANGED <<varsL, varsT>>

NextU ==
    \/ ImportModule
    \/ Translate

----------------------------------------------------------------------------
(* The whole model *)

InitLSystem ==
    /\ \E a \in Axioms, r \in RuleTables : LSystemInit(a, r)
    /\ TurtleNone
    /\ TranslateNone

InitTurtle ==
    /\ LSystemNone
    /\ TranslateNone
    /\ \E c \in CommandStrings, p \in TurtleParams :
          /\ TurtleInit(p[1])
          /\ cmds = c
          /\ step = p[2]
    /\ idx = 0
    /\ pcT = "ready"
    /\ hist = <<>>
    /\ objT = 1
    /\ callsT = 0
    /\ logT = <<>>

InitTranslate ==
    /\ LSystemNone
    /\ TurtleNone
    /\ pxr \in BOOLEAN
    /\ stateLoads \in BOOLEAN
    /\ promptLoads \in BOOLEAN
    /\ hasPoints \in BOOLEAN
    /\ hasCounts \in BOOLEAN
    /\ pcU = "unloaded"
    /\ stepsU = <<>>
    /\ outFile = "absent"

Init == InitLSystem \/ InitTurtle \/ InitTranslate

Next == NextL \/ NextT \/ NextU

Spec == Init /\ [][Next]_vars

----------------------------------------------------------------------------
(* Vocabulary of the claims *)

Origin == <<0, 0, 0>>

\* Bracket depth after s, or -1 once a `]` had no matching `[`.
RECURSIVE DepthFrom(_, _, _)
DepthFrom(s, k, d) ==
    IF d < 0 THEN -1
    ELSE IF k > Len(s) THEN d
    ELSE DepthFrom(s, k + 1,
                   IF s[k] = "[" THEN d + 1
                   ELSE IF s[k] = "]" THEN d - 1 ELSE d)

Balanced(s) == DepthFrom(s, 1, 0) = 0

\* Curves of the given list that have fewer than 2 vertices.
ShortCurves(cis) == Cardinality({k \in 1..Len(cis) : Len(cis[k]) < 2})

NoDuplicates(s) == \A j, k \in 1..Len(s) : s[j] = s[k] => j = k

\* The first execute call on the first Turtle object has returned and
\* nothing has been called since.
FirstTraceDone == pcT = "done" /\ objT = 1 /\ callsT = 1

FirstResult == logT[1]

\* Where the image of old[k] starts in the rewritten string, when every
\* symbol c is replaced by Img(c): the summed lengths of the images before it.
RECURSIVE OffsetOf(_, _, _)
OffsetOf(Img(_), old, k) ==
    IF k <= 1 THEN 0
    ELSE OffsetOf(Img, old, k - 1) + Len(Img(old[k - 1]))

\* new is, piece by piece and in order, the images of the symbols of old.
SegmentsMatch(Img(_), old, new) ==
    /\ Len(new) = OffsetOf(Img, old, Len(old) + 1)
    /\ \A k \in 1..Len(old) :
          SubSeq(new, OffsetOf(Img, old, k) + 1,
                 OffsetOf(Img, old, k) + Len(Img(old[k]))) = Img(old[k])

HasRule(c) == c \in DOMAIN rules
HasListRule(c) == HasRule(c) /\ rules[c].kind = "list"
HasStrRule(c) == HasRule(c) /\ rules[c].kind = "str"

\* The image the specification gives a symbol: string successors verbatim,
\* the first alternative of a weighted list, anything else unchanged.
FirstChoiceImage(c) ==
    IF HasStrRule(c) THEN rules[c].str
    ELSE IF HasListRule(c) THEN rules[c].alts[1].successor
    ELSE <<c>>

\* String successors verbatim, every other symbol unchanged.
StringOnlyImage(c) == IF HasStrRule(c) THEN rules[c].str ELSE <<c>>

\* A generation has been applied to the current LSystem object, so prev and
\* state are the string before and after it.
GenerationApplied == pcL # "none" /\ gens > 0

\* s rewritten n times, each symbol by StringOnlyImage.
RECURSIVE Flatten(_)
Flatten(ss) == IF ss = <<>> THEN <<>> ELSE Head(ss) \o Flatten(Tail(ss))
RECURSIVE Generations(_, _)
Generations(s, n) ==
    IF n = 0 THEN s
    ELSE Generations(Flatten([k \in 1..Len(s) |-> StringOnlyImage(s[k])]), n - 1)

----------------------------------------------------------------------------
(* C1 *)

\* C1 (as claimed): tracing never fails on a stray close bracket: `]` with an
\* empty stack is skipped and tracing goes on, so execute is never left by an
\* exception, and "]F" returns one curve of 2 vertices starting at the origin.
C1_StrayCloseIgnored ==
    /\ pcT # "raised"
    /\ (FirstTraceDone /\ cmds = <<"]", "F">>) =>
          /\ FirstResult.counts = <<2>>
          /\ FirstResult.points[1] = Origin

----------------------------------------------------------------------------
(* C2 *)

\* C2 (as claimed): the returned point list never holds the same coordinates
\* twice (coordinates are integers here, so they are their own rounded key).
C2_PointsDeduplicated ==
    \A k \in 1..Len(logT) : NoDuplicates(logT[k].points)

----------------------------------------------------------------------------
(* C3 *)

TrunkScenario == <<"F", "[", "+", "F", "]", "F", "[", "-", "F", "]", "F">>

\* C3 (as claimed): for balanced brackets the number of emitted curves is
\* (number of `[` + 1) minus the curves with fewer than 2 vertices, and
\* "F[+F]F[-F]F" gives 3 curves.
C3_CurvesPerOpenBracket ==
    (FirstTraceDone /\ Balanced(cmds)) =>
        /\ Len(FirstResult.counts) =
              CountOf("[", cmds) + 1 - ShortCurves(curve_indices)
        /\ cmds = TrunkScenario => Len(FirstResult.counts) = 3

\* C3 (amended): on a fresh tracer and for balanced brackets the number of
\* emitted curves is (number of `[` + number of `]` + 1) minus the curves with
\* fewer than 2 vertices: `]` starts a new curve too.  "F[+F]F[-F]F" gives its
\* 5 segments as 5 curves of 2 vertices.
C3_CurvesPerBracket ==
    (FirstTraceDone /\ Balanced(cmds)) =>
        /\ Len(FirstResult.counts) =
              CountOf("[", cmds) + CountOf("]", cmds) + 1
                  - ShortCurves(curve_indices)
        /\ cmds = TrunkScenario => FirstResult.counts = <<2, 2, 2, 2, 2>>

C3_Witness ==
    /\ FirstTraceDone
    /\ cmds = TrunkScenario
    /\ Len(FirstResult.counts) = 5

----------------------------------------------------------------------------
(* C4 *)

----------------------------------------------------------------------------
(* C5 *)

\* C5 (as claimed): any two invocations with the same inputs return the same
\* value, a second invocation on the same engine object included.
C5_EveryInvocationAlike ==
    /\ \A j, k \in 1..Len(logL) :
          logL[j].n = logL[k].n => logL[j].ret = logL[k].ret
    /\ \A j, k \in 1..Len(logT) :
          logT[j].cmds = logT[k].cmds
              => /\ logT[j].points = logT[k].points
                 /\ logT[j].counts = logT[k].counts

\* C5 (amended): first invocations on freshly constructed engine objects with
\* the same inputs return the same value.  The objects carry their state from
\* call to call: a second iterate(n) on the same LSystem rewrites the string
\* the first call left, and a second execute on the same Turtle returns the
\* first call's points and curve counts followed by new ones.
C5_FreshInvocationsAlike ==
    /\ \A j, k \in 1..Len(logL) :
          /\ (logL[j].first /\ logL[k].first /\ logL[j].n = logL[k].n)
                => logL[j].ret = logL[k].ret
          /\ (j + 1 = k /\ logL[j].obj = logL[k].obj)
                => logL[k].ret = Generations(logL[j].ret, logL[k].n)
    /\ \A j, k \in 1..Len(logT) :
          /\ (logT[j].call = 1 /\ logT[k].call = 1
                  /\ logT[j].cmds = logT[k].cmds)
                => /\ logT[j].points = logT[k].points
                   /\ logT[j].counts = logT[k].counts
          /\ (logT[j].call = 1 /\ logT[k].call = 2)
                => /\ logT[j].cmds = logT[k].cmds
                   /\ IsPrefix(logT[j].points, logT[k].points)
                   /\ IsPrefix(logT[j].counts, logT[k].counts)
                   /\ Len(logT[k].points) > Len(logT[j].points)

C5_Witness ==
    /\ Len(logT) = 2
    /\ logT[2].obj = 2
    /\ logT[2].cmds = logT[1].cmds
    /\ Len(logT[1].counts) > 1

----------------------------------------------------------------------------
(* C6 *)

\* C6: iterate(0) on a freshly constructed LSystem returns the axiom.
C6_ZeroGenerationsIsAxiom ==
    \A k \in 1..Len(logL) :
        (logL[k].first /\ logL[k].n = 0) => logL[k].ret = axiom

C6_Witness ==
    /\ Len(logL) > 0
    /\ logL[1].n = 0
    /\ Generations(axiom, 1) # axiom

----------------------------------------------------------------------------
(* C7 *)

\* C7: every entry of a returned curveVertexCounts is at least 2.
C7_CountsAtLeastTwo ==
    \A k \in 1..Len(logT) :
        \A c \in 1..Len(logT[k].counts) : logT[k].counts[c] >= 2

C7_Witness ==
    /\ FirstTraceDone
    /\ Len(FirstResult.counts) > 0
    /\ ShortCurves(curve_indices) > 0

----------------------------------------------------------------------------
(* C8 *)

\* The length ceiling, scaled down to the strings of this model.
LengthCeiling == 6

\* C8 (as claimed): the string held by the rewriting engine never exceeds the
\* ceiling, because expansion aborts instead.
C8_LengthCeilingEnforced == Len(state) <= LengthCeiling

----------------------------------------------------------------------------
(* C9 *)

\* C9: one generation replaces each symbol, independently and in order, by
\* its string successor or, without a string rule, by itself: the new string
\* is the concatenation of the per-symbol images of the old one.
C9_ParallelRewrite ==
    GenerationApplied => SegmentsMatch(StringOnlyImage, prev, state)

C9_Witness ==
    /\ GenerationApplied
    /\ \E k \in 1..Len(prev) : HasStrRule(prev[k]) /\ rules[prev[k]].str # <<>>
    /\ \E k \in 1..Len(prev) : ~HasRule(prev[k])
    /\ Len(state) > Len(prev)

----------------------------------------------------------------------------
(* C10 *)

\* `+` at position k of the command string directly followed by `-`, both
\* processed in the current call.
PlusThenMinusAt(k) ==
    /\ k + 2 <= Len(hist)
    /\ cmds[k] = "+"
    /\ cmds[k + 1] = "-"

\* C10: `+` directly followed by `-` leaves the tracer exactly as it was before
\* the `+`: heading, up, position, stack and recorded geometry.
C10_RotationClosure ==
    \A k \in 1..Len(cmds) : PlusThenMinusAt(k) => hist[k + 2] = hist[k]

C10_Witness ==
    \E k \in 2..Len(cmds) :
        /\ PlusThenMinusAt(k)
        /\ hist[k + 1].direction # hist[k].direction
        /\ hist[k].direction # <<0, 1, 0>>

----------------------------------------------------------------------------
(* Vocabulary of the claims about single commands *)

\* Command k of the current call has been processed: hist[k] is the tracer
\* before it and hist[k + 1] the tracer after it.
Processed(k) == k >= 1 /\ k + 1 <= Len(hist)

\* The call in progress, or just ended, is the first on its Turtle object.
OnFreshTurtle == pcT \in {"running", "done", "raised"} /\ callsT = 1

\* The position of the `[` that the `]` at position k closes, scanning back
\* from j with d closed brackets still to match; 0 when there is none.
RECURSIVE MatchFrom(_, _)
MatchFrom(j, d) ==
    IF j < 1 THEN 0
    ELSE IF cmds[j] = "]" THEN MatchFrom(j - 1, d + 1)
    ELSE IF cmds[j] = "[" THEN (IF d = 0 THEN j ELSE MatchFrom(j - 1, d - 1))
    ELSE MatchFrom(j - 1, d)

MatchingOpen(k) == MatchFrom(k - 1, 0)

----------------------------------------------------------------------------
(* C11 *)

\* C11 (as claimed): a trace starts from position (0,0,0), heading (0,1,0),
\* up (0,0,1) and an empty stack, with the first curve seeded at the origin.
C11_InitialFrame ==
    /\ pcT = "ready" =>
          /\ position = Origin
          /\ direction = <<0, 1, 0>>
          /\ up = <<0, 0, 1>>
          /\ stack = <<>>
    /\ OnFreshTurtle =>
          /\ hist[1].position = Origin
          /\ hist[1].direction = <<0, 1, 0>>
          /\ hist[1].up = <<0, 0, 1>>
          /\ hist[1].stack = <<>>
          /\ hist[1].vertices = <<Origin>>
          /\ hist[1].current_curve = <<0>>

----------------------------------------------------------------------------
(* C12 *)

\* C12: a `]` processed with a non-empty stack restores position, heading and
\* up to what they were when its matching `[` was processed, whatever was
\* traced in between; the stack is again the stack from before that `[`, one
\* shorter than before the `]`, and the new curve starts at the restored
\* position.
C12_BranchRestore ==
    \A k \in 1..Len(cmds) :
        (Processed(k) /\ cmds[k] = "]" /\ MatchingOpen(k) > 0) =>
            LET before == hist[MatchingOpen(k)]
                after == hist[k + 1]
            IN /\ after.position = before.position
               /\ after.direction = before.direction
               /\ after.up = before.up
               /\ after.stack = before.stack
               /\ Len(after.stack) = Len(hist[k].stack) - 1
               /\ Len(after.current_curve) = 1
               /\ after.vertices[after.current_curve[1] + 1] = before.position

C12_Witness ==
    \E k \in 1..Len(cmds) :
        /\ Processed(k)
        /\ cmds[k] = "]"
        /\ MatchingOpen(k) > 1
        /\ hist[k].position # hist[k + 1].position
        /\ hist[k].direction # hist[k + 1].direction
        /\ Len(hist[k].stack) > 1

----------------------------------------------------------------------------
(* C13 *)

\* C13 (as claimed): `\` and `/` roll the frame about the heading: for a turn
\* angle that is not a full turn the up vector changes, while heading and
\* position stay.
C13_RollChangesUp ==
    \A k \in 1..Len(cmds) :
        (Processed(k) /\ cmds[k] \in {"\\", "/"} /\ angle % 4 # 0) =>
            /\ hist[k + 1].up # hist[k].up
            /\ hist[k + 1].direction = hist[k].direction
            /\ hist[k + 1].position = hist[k].position

----------------------------------------------------------------------------
(* C14 *)

\* C14: a symbol outside the structural command set changes nothing in the
\* tracer (frame, stack, points, open and closed curves), and a fresh tracer
\* given the command string without those symbols returns the same result.
C14_OtherSymbolsIgnored ==
    /\ \A k \in 1..Len(cmds) :
          (Processed(k) /\ cmds[k] \notin Structural) => hist[k + 1] = hist[k]
    /\ pcT # "raised" \/ cmds[idx] \in Structural
    /\ \A j, k \in 1..Len(logT) :
          (/\ logT[j].call = 1
           /\ logT[k].call = 1
           /\ logT[k].cmds = StructuralOnly(logT[j].cmds))
              => /\ logT[k].points = logT[j].points
                 /\ logT[k].counts = logT[j].counts

C14_Witness ==
    /\ Len(logT) = 2
    /\ logT[2].cmds # logT[1].cmds
    /\ Len(logT[1].counts) > 0

----------------------------------------------------------------------------
(* C15 *)

\* C15: F moves the position by heading * step_length, appends that one new
\* position to the vertices and its index to the curve in progress, and leaves
\* heading, up, the stack and the closed curves alone; + - & ^ leave the
\* position, the stack and all recorded geometry alone.
C15_ForwardAndTurnEffects ==
    \A k \in 1..Len(cmds) :
        Processed(k) =>
            LET b == hist[k]
                a == hist[k + 1]
            IN /\ cmds[k] = "F" =>
                    /\ \A c \in 1..3 :
                          a.position[c] = b.position[c] + b.direction[c] * step
                    /\ a.vertices = Append(b.vertices, a.position)
                    /\ a.current_curve =
                          Append(b.current_curve, Len(b.vertices))
                    /\ a.direction = b.direction
                    /\ a.up = b.up
                    /\ a.stack = b.stack
                    /\ a.curve_indices = b.curve_indices
               /\ cmds[k] \in {"+", "-", "&", "^"} =>
                    /\ a.position = b.position
                    /\ a.stack = b.stack
                    /\ a.vertices = b.vertices
                    /\ a.curve_indices = b.curve_indices
                    /\ a.current_curve = b.current_curve

C15_Witness ==
    \E j, k \in 1..Len(cmds) :
        /\ Processed(k)
        /\ j < k
        /\ cmds[j] \in {"+", "-", "&", "^"}
        /\ cmds[k] = "F"
        /\ step > 1
        /\ hist[k].direction # <<0, 1, 0>>
        /\ hist[k].stack # <<>>

----------------------------------------------------------------------------
(* C16 *)

\* Some string rule has the empty string as successor.
HasErasingRule == \E c \in DOMAIN rules : HasStrRule(c) /\ rules[c].str = <<>>

\* C16 (as claimed): for every axiom and rule table the string is at least as
\* long after a generation as before it.
C16_NeverShrinks == GenerationApplied => Len(state) >= Len(prev)

\* C16 (amended): for every axiom and every rule table in which no string
\* successor is empty, the string is at least as long after a generation as
\* before it.
C16_NeverShrinksWithoutErasing ==
    (GenerationApplied /\ ~HasErasingRule) => Len(state) >= Len(prev)

C16_Witness ==
    /\ GenerationApplied
    /\ ~HasErasingRule
    /\ Len(state) > Len(prev)
    /\ \E k \in 1..Len(prev) : ~HasStrRule(prev[k])

----------------------------------------------------------------------------
(* C17 *)

RECURSIVE SumSeq(_)
SumSeq(s) == IF s = <<>> THEN 0 ELSE Head(s) + SumSeq(Tail(s))

\* The curves that are emitted: those with at least 2 vertices, in order.
EmittedCurves(cis) == SelectSeq(cis, LAMBDA c : Len(c) > 1)

\* The vertices a consumer reads for curve c when it cuts the point list
\* into consecutive runs of the given counts.
RunOf(points, counts, c) ==
    LET start == SumSeq(SubSeq(counts, 1, c - 1))
    IN SubSeq(points, start + 1, start + counts[c])

\* The vertices the tracer recorded for a curve, by its indices.
VerticesOf(points, curve) == [v \in 1..Len(curve) |-> points[curve[v] + 1]]

\* C17 (as claimed): the counts of a returned result add up to the number of
\* points, and cutting the points into consecutive runs of those counts gives
\* back the vertices of each emitted curve in order.
C17_SequentialLayout ==
    FirstTraceDone =>
        LET res == FirstResult
            emitted == EmittedCurves(curve_indices)
        IN /\ SumSeq(res.counts) = Len(res.points)
           /\ \A c \in 1..Len(res.counts) :
                 RunOf(res.points, res.counts, c) =
                     VerticesOf(res.points, emitted[c])

----------------------------------------------------------------------------
(* C18 *)

\* The vertex indices of a curve are consecutive.
Consecutive(curve) == \A v \in 1..(Len(curve) - 1) : curve[v + 1] = curve[v] + 1

\* C18: on a fresh tracer, after every processed prefix of the command string
\* the vertices number 1 + #F + #[ + #], the curves opened so far number
\* 1 + #[ + #], every curve is a run of consecutive vertex indices, and the
\* stack depth is #[ - #].
C18_CountingInvariant ==
    OnFreshTurtle =>
        \A j \in 1..Len(hist) :
            LET done == SubSeq(cmds, 1, j - 1)
                h == hist[j]
                opens == CountOf("[", done)
                closes == CountOf("]", done)
            IN /\ Len(h.vertices) = 1 + CountOf("F", done) + opens + closes
               /\ Len(h.curve_indices) + 1 = 1 + opens + closes
               /\ Len(h.current_curve) >= 1
               /\ Consecutive(h.current_curve)
               /\ \A c \in 1..Len(h.curve_indices) :
                     Consecutive(h.curve_indices[c])
               /\ Len(h.stack) = opens - closes

C18_Witness ==
    /\ OnFreshTurtle
    /\ pcT = "done"
    /\ CountOf("F", cmds) > 0
    /\ CountOf("[", cmds) > 1
    /\ CountOf("]", cmds) > 0
    /\ stack # <<>>

----------------------------------------------------------------------------
(* C19 *)

\* C19: on a fresh LSystem, iterate(a) followed by iterate(b) returns the
\* string, and leaves the state, that one iterate(a + b) returns and leaves on
\* another fresh LSystem with the same axiom and rules.
C19_GenerationsCompose ==
    (/\ Len(logL) = 3
     /\ logL[1].obj = 1
     /\ logL[2].obj = 1
     /\ logL[3].obj = 2
     /\ logL[3].n = logL[1].n + logL[2].n)
        => /\ logL[3].ret = logL[2].ret
           /\ pcL = "returned" => state = logL[2].ret

C19_Witness ==
    /\ Len(logL) = 3
    /\ logL[3].obj = 2
    /\ logL[1].n > 0
    /\ logL[2].n > 0
    /\ logL[3].n = logL[1].n + logL[2].n
    /\ logL[2].ret # logL[1].ret
    /\ logL[1].ret # axiom

----------------------------------------------------------------------------
(* C20 *)

\* C20 (as claimed): with pxr importable, both files loading and non-empty
\* points and counts, translate_to_usdc runs its steps in order and leaves
\* the saved stage, never the '# FAILED' file.
C20_TranslationSaves ==
    (/\ pcU = "returned"
     /\ stateLoads
     /\ promptLoads
     /\ hasPoints
     /\ hasCounts)
        => /\ stepsU = <<"load", "create_stage", "define_root", "embed_prompt",
                         "define_curves", "save">>
           /\ outFile = "saved"

====
